---- MODULE Spec2Model ----
(***************************************************************************)
(* Model of the project-auth service: the Express/Mongoose backend         *)
(* (src/unnamed/part_000: /register, /login, /secrets, /sessions) and the  *)
(* React client (src/frontend/src/components/Login.js, src/unnamed/part_001)*)
(*                                                                         *)
(* Every HTTP request occupies one slot.  A handler runs synchronously up   *)
(* to its await and again from the moment the awaited store operation      *)
(* settles; in between any other handler may run.  /register does work     *)
(* that can fail before its await, so it is two actions (Register,         *)
(* RegisterSave).  The other handlers do nothing before their await and    *)
(* read nothing but the lookup's result after it, so each is one action,   *)
(* taken at the moment its lookup settles.                                 *)
(***************************************************************************)
EXTENDS Naturals, FiniteSets, Sequences

\* Number of HTTP requests the server sees in one run.
MaxReq == 2

VARIABLES
    users,      \* the User collection: the documents saved so far
    reqs,       \* reqs[i]: request i, its handler's position and its response
    location,   \* client: the router's current path
    mode,       \* client: Login's radio button, "login" or "register"
    store,      \* client: the redux store's user slice
    inflight    \* client: the fetches whose .then callback has not run yet

vars == <<users, reqs, location, mode, store, inflight>>
clientVars == <<location, mode, store, inflight>>

Slots == 1..MaxReq

----------------------------------------------------------------------------
(* Values of a request *)

\* A field absent from req.body, or an absent header: JavaScript's undefined.
Undefined == "<undefined>"

Names == {"alice", "bob"}
NameInputs == Names \cup {Undefined}
\* /register is also sent the empty name, which the schema refuses.
RegisterNames == NameInputs \cup {""}

\* What the Login form can hold: its fields are strings, "" until typed in.
FormNames == Names \cup {""}
FormPasswords == {"pw", ""}
PasswordInputs == {"pw", "", Undefined}
Salts == {"saltA", "saltB"}

\* crypto.randomBytes(128).toString("hex"): 1024 random bits, modelled as a
\* value no other call returns (the call made for request i returns the i-th).
TokenPool == <<"tok1", "tok2", "tok3", "tok4", "tok5", "tok6">>
RandomBytes(i) == TokenPool[i]
AuthInputs == {Undefined, "garbage"} \cup {TokenPool[i] : i \in Slots}

IsString(v) == v # Undefined

----------------------------------------------------------------------------
(* bcrypt *)

\* bcrypt.hashSync(data, salt): the digest carries its salt; it is a function
\* of (salt, data) and distinct inputs give distinct digests.
HashSync(data, salt) == [salt |-> salt, digest |-> <<salt, data>>]

\* bcrypt.compareSync(data, encrypted): hash data under the digest's own salt
\* and compare.  (Throws when data is not a string: see CompareThrows.)
CompareSync(data, encrypted) == HashSync(data, encrypted.salt) = encrypted

\* bcrypt throws "data and salt arguments required" / "data must be a string"
\* when data is undefined.
HashThrows(data) == ~IsString(data)
CompareThrows(data) == ~IsString(data)

----------------------------------------------------------------------------
(* HTTP status codes and response bodies, as the handlers write them *)

Created == 201
Ok == 200
BadRequest == 400
Unauthorized == 401
ServerError == 500

SecretMessage == "This is the secret page! Woop woop"

\* No response has been written on the connection.
NoResponse == [status |-> 0, body |-> [unanswered |-> TRUE]]

RegisterCreated(u) ==
    [status |-> Created,
     body |-> [success |-> TRUE,
               response |-> [name |-> u.name, id |-> u.id,
                             accessToken |-> u.accessToken]]]

RegisterFailed(e) ==
    [status |-> BadRequest,
     body |-> [success |-> FALSE, response |-> e,
               message |-> "Could not create user"]]

\* Variant: a login that answers with a newly generated token.
LoginSucceeded_NewToken(u) ==
    [status |-> Ok,
     body |-> [success |-> TRUE,
               response |-> [name |-> u.name, id |-> u.id,
                             accessToken |-> RandomBytes(u.id + 1)]]]

LoginSucceeded(u) ==
    [status |-> Ok,
     body |-> [success |-> TRUE,
               response |-> [name |-> u.name, id |-> u.id,
                             accessToken |-> u.accessToken]]]

LoginMismatch ==
    [status |-> BadRequest,
     body |-> [success |-> FALSE, response |-> "Credentials do not match"]]

InternalError(e) ==
    [status |-> ServerError, body |-> [success |-> FALSE, response |-> e]]

SecretsGranted == [status |-> Ok, body |-> [secret |-> SecretMessage]]

PleaseLogIn ==
    [status |-> Unauthorized,
     body |-> [success |-> FALSE, response |-> "Please log in",
               loggedOut |-> TRUE]]

SessionsFound(u) ==
    [status |-> Ok, body |-> [userId |-> u.id, accessToken |-> u.accessToken]]

SessionsNotFound == [status |-> Ok, body |-> [notFound |-> TRUE]]

----------------------------------------------------------------------------
(* The User model *)

\* Variant: a schema without required: true.
Required_Off(v) == TRUE

\* required: true on a String path: undefined and "" both fail validation.
Required(v) == IsString(v) /\ v # ""

\* Variant: a collection without the unique index on name.
NameTaken_NoIndex(name) == FALSE

\* unique: true on name: the collection's unique index refuses an insert
\* whose name is already there (E11000), atomically with the insert.
NameTaken(name) == \E u \in users : u.name = name

\* new User({name, password}): _id and the accessToken default are set when
\* the document is constructed.
NewUser(i, name, hashed) ==
    [id |-> i, name |-> name, password |-> hashed,
     accessToken |-> RandomBytes(i)]

\* Variant: a lookup whose filter is dropped, matching every document.
FindByToken_AnyUser(token) == users

\* User.findOne({name}) / User.findOne({accessToken}): the matching
\* documents; findOne resolves to one of them, or to null when there is none.
\* An undefined value is sent as null and matches no stored document, since
\* every stored document has both fields.
FindByName(name) == {u \in users : u.name = name}
FindByToken(token) == {u \in users : u.accessToken = token}

----------------------------------------------------------------------------
(* Requests *)

IdleReq ==
    [op |-> "none", name |-> Undefined, password |-> Undefined,
     auth |-> Undefined, salt |-> Undefined, pc |-> "idle",
     dbFailed |-> FALSE, resp |-> NoResponse]

\* Slot i is the next one to be used.
Free(i) ==
    /\ reqs[i].pc = "idle"
    /\ \A j \in Slots : j < i => reqs[j].pc # "idle"

Answered(i) == reqs[i].resp # NoResponse

Init ==
    /\ users = {}
    /\ reqs = [i \in Slots |-> IdleReq]
    /\ location = "/login"
    /\ mode = "login"
    /\ store = [accessToken |-> Undefined, error |-> Undefined]
    /\ inflight = {}

----------------------------------------------------------------------------
(* POST /register *)

\* Lines 56-63 up to the await: genSaltSync, hashSync, new User, save().
\* hashSync throws inside the try when password is undefined.
Register(i, name, password, salt) ==
    /\ Free(i)
    /\ reqs' = [reqs EXCEPT ![i] =
            IF HashThrows(password)
            THEN [@ EXCEPT !.op = "register", !.name = name,
                           !.password = password, !.salt = salt,
                           !.pc = "done",
                           !.resp = RegisterFailed("Error")]
            ELSE [@ EXCEPT !.op = "register", !.name = name,
                           !.password = password, !.salt = salt,
                           !.pc = "await"]]
    /\ UNCHANGED users

\* save() settles: validation, then the insert under the unique index, then
\* the rest of the handler (201) or its catch (400).
RegisterSave(i) ==
    /\ reqs[i].op = "register" /\ reqs[i].pc = "await"
    /\ LET r == reqs[i]
           doc == NewUser(i, r.name, HashSync(r.password, r.salt))
       IN  \/ /\ ~Required(r.name)
              /\ reqs' = [reqs EXCEPT ![i].pc = "done",
                            ![i].resp = RegisterFailed("ValidationError")]
              /\ UNCHANGED users
           \/ /\ Required(r.name)
              /\ reqs' = [reqs EXCEPT ![i].pc = "done", ![i].dbFailed = TRUE,
                            ![i].resp = RegisterFailed("MongoError")]
              /\ UNCHANGED users
           \/ /\ Required(r.name)
              /\ NameTaken(r.name)
              /\ reqs' = [reqs EXCEPT ![i].pc = "done",
                            ![i].resp = RegisterFailed("E11000")]
              /\ UNCHANGED users
           \/ /\ Required(r.name)
              /\ ~NameTaken(r.name)
              /\ users' = users \cup {doc}
              /\ reqs' = [reqs EXCEPT ![i].pc = "done",
                            ![i].resp = RegisterCreated(doc)]

----------------------------------------------------------------------------
(* POST /login *)

\* Variant: a login that rotates the stored token on success.
Login_Rotating(i, name, password) ==
    /\ Free(i)
    /\ LET r == [reqs[i] EXCEPT !.op = "login", !.name = name,
                                !.password = password, !.pc = "done"]
           found == FindByName(name)
       IN  \/ /\ found = {}
              /\ reqs' = [reqs EXCEPT ![i] = [r EXCEPT !.resp = LoginMismatch]]
              /\ UNCHANGED users
           \/ \E user \in found :
                 LET fresh == [user EXCEPT !.accessToken = RandomBytes(i)]
                 IN  /\ ~CompareThrows(password)
                     /\ CompareSync(password, user.password)
                     /\ users' = (users \ {user}) \cup {fresh}
                     /\ reqs' = [reqs EXCEPT ![i] =
                                    [r EXCEPT !.resp = LoginSucceeded(fresh)]]

\* Lines 82-109.  The handler's only await is findOne; what follows it reads
\* nothing but the document found, so the lookup and the rest of the handler
\* are one step, taken when the lookup settles.
Login(i, name, password) ==
    /\ Free(i)
    /\ UNCHANGED users
    /\ LET r == [reqs[i] EXCEPT !.op = "login", !.name = name,
                                !.password = password, !.pc = "done"]
           found == FindByName(name)
       IN  \/ \* findOne rejects: catch, 500
              reqs' = [reqs EXCEPT ![i] =
                         [r EXCEPT !.dbFailed = TRUE,
                                   !.resp = InternalError("MongoError")]]
           \/ \* user is null: the && short-circuits, compareSync is not called
              /\ found = {}
              /\ reqs' = [reqs EXCEPT ![i] = [r EXCEPT !.resp = LoginMismatch]]
           \/ \E user \in found :
                 reqs' = [reqs EXCEPT ![i] =
                    [r EXCEPT !.resp =
                        IF CompareThrows(password)
                        THEN InternalError("Error")
                        ELSE IF CompareSync(password, user.password)
                        THEN LoginSucceeded(user)
                        ELSE LoginMismatch]]

----------------------------------------------------------------------------
(* GET /secrets *)

\* Lines 133-153.
Secrets(i, auth) ==
    /\ Free(i)
    /\ UNCHANGED users
    /\ LET r == [reqs[i] EXCEPT !.op = "secrets", !.auth = auth,
                                !.pc = "done"]
           found == FindByToken(auth)
       IN  \/ reqs' = [reqs EXCEPT ![i] =
                         [r EXCEPT !.dbFailed = TRUE,
                                   !.resp = InternalError("MongoError")]]
           \/ reqs' = [reqs EXCEPT ![i] =
                         [r EXCEPT !.resp = IF found # {} THEN SecretsGranted
                                             ELSE PleaseLogIn]]

----------------------------------------------------------------------------
(* POST /sessions *)

\* What becomes of a request whose async handler rejects.  The handler has no
\* try/catch and registers no error middleware.  Express 4 drops the rejected
\* promise: nothing is ever written on the connection.  Express 5 forwards
\* the rejection to its default error handler, which answers 500.  The
\* repository pins neither, so both are outcomes.  (Where Node ends the
\* process on an unhandled rejection the request is unanswered as well; the
\* model keeps the process running.)
Rejected(r, failed) ==
    { [r EXCEPT !.dbFailed = failed, !.resp = NoResponse],
      [r EXCEPT !.dbFailed = failed,
                !.resp = [status |-> ServerError,
                          body |-> [html |-> "Internal Server Error"]]] }

\* Lines 155-162.
Sessions(i, name, password) ==
    /\ Free(i)
    /\ UNCHANGED users
    /\ LET r == [reqs[i] EXCEPT !.op = "sessions", !.name = name,
                                !.password = password, !.pc = "done"]
           found == FindByName(name)
       IN  \/ \* findOne rejects
              \E out \in Rejected(r, TRUE) :
                 reqs' = [reqs EXCEPT ![i] = out]
           \/ /\ found = {}
              /\ reqs' = [reqs EXCEPT ![i] =
                            [r EXCEPT !.resp = SessionsNotFound]]
           \/ \E user \in found :
                 \/ \* compareSync throws
                    /\ CompareThrows(password)
                    /\ \E out \in Rejected(r, FALSE) :
                          reqs' = [reqs EXCEPT ![i] = out]
                 \/ /\ ~CompareThrows(password)
                    /\ reqs' = [reqs EXCEPT ![i] =
                          [r EXCEPT !.resp =
                              IF CompareSync(password, user.password)
                              THEN SessionsFound(user)
                              ELSE SessionsNotFound]]

----------------------------------------------------------------------------
ServerNext ==
    \/ \E i \in Slots, n \in RegisterNames, p \in PasswordInputs, s \in Salts :
          Register(i, n, p, s) /\ UNCHANGED clientVars
    \/ \E i \in Slots : RegisterSave(i) /\ UNCHANGED clientVars
    \/ \E i \in Slots, n \in NameInputs, p \in PasswordInputs :
          Login(i, n, p) /\ UNCHANGED clientVars
    \/ \E i \in Slots, a \in AuthInputs :
          Secrets(i, a) /\ UNCHANGED clientVars
    \/ \E i \in Slots, n \in NameInputs, p \in PasswordInputs :
          Sessions(i, n, p) /\ UNCHANGED clientVars

Next == ServerNext

Spec == Init /\ [][Next]_vars

----------------------------------------------------------------------------
(* The client: App's routes, Login and Main *)

\* App: <Routes> has /login -> Login and /secrets -> Main, and nothing else.
\* Main returns <Navigate to="/login"/> when the store holds no accessToken.
View ==
    IF location = "/login" THEN "Login"
    ELSE IF location = "/secrets"
         THEN (IF store.accessToken = Undefined THEN "Navigate" ELSE "Main")
         ELSE "blank"

\* Login's useEffect on [accessToken]: if (accessToken) navigate("/").
LoginEffectTarget == "/"

\* The path the router is at once Login has rendered with this store and its
\* effect has run.
AfterLoginEffect(st) ==
    IF st.accessToken # Undefined THEN LoginEffectTarget ELSE "/login"

\* The radio buttons: setMode.
SetMode(m) ==
    /\ View = "Login"
    /\ mode # m
    /\ mode' = m
    /\ UNCHANGED <<users, reqs, location, store, inflight>>

\* onFormSubmit: fetch(API_URL(mode), {method: "POST", body: {name, password}}).
\* The server starts handling the request; the .then callback is pending.
Submit(i, username, password, salt) ==
    /\ View = "Login"
    /\ \/ mode = "login" /\ Login(i, username, password)
       \/ mode = "register" /\ Register(i, username, password, salt)
    /\ inflight' = inflight \cup {i}
    /\ UNCHANGED <<location, mode, store>>

\* .then(data => ...) of onFormSubmit, and the render and effect the
\* dispatches cause when Login is mounted.
FetchThen(i) ==
    /\ i \in inflight
    /\ Answered(i)
    /\ LET data == reqs[i].resp.body
           st == IF data.success
                 THEN [accessToken |-> data.response.accessToken,
                       error |-> Undefined]
                 ELSE [accessToken |-> Undefined, error |-> data.response]
       IN  /\ store' = st
           /\ location' = IF View = "Login" THEN AfterLoginEffect(st)
                          ELSE location
    /\ inflight' = inflight \ {i}
    /\ UNCHANGED <<users, reqs, mode>>

\* The user loads a URL of the app: a fresh page, a fresh store (App's
\* configureStore has no persistence), pending callbacks gone.
OpenPage(path) ==
    /\ location' = path
    /\ mode' = "login"
    /\ store' = [accessToken |-> Undefined, error |-> Undefined]
    /\ inflight' = {}
    /\ UNCHANGED <<users, reqs>>

\* <Navigate to="/login"/>, rendered by Main without an accessToken.
MainRedirect ==
    /\ View = "Navigate"
    /\ location' = "/login"
    /\ UNCHANGED <<users, reqs, mode, store, inflight>>

ClientNext ==
    \/ \E m \in {"login", "register"} : SetMode(m)
    \/ \E i \in Slots, n \in FormNames, p \in FormPasswords, s \in Salts :
          Submit(i, n, p, s)
    \/ \E i \in Slots : FetchThen(i)
    \/ \E path \in {"/login", "/secrets"} : OpenPage(path)
    \/ MainRedirect
    \/ \E i \in Slots : RegisterSave(i) /\ UNCHANGED clientVars

SpecClient == Init /\ [][ClientNext]_vars

----------------------------------------------------------------------------
(* Properties *)

IsRegister(i) == reqs[i].op = "register"
IsLogin(i) == reqs[i].op = "login"
IsSecrets(i) == reqs[i].op = "secrets"
IsSessions(i) == reqs[i].op = "sessions"

\* Request i is answered by this step.
AnsweredNow(i) == ~Answered(i) /\ Answered(i)'

\* Request i's handler ends in this step (with or without a response).
EndsNow(i) == reqs[i].pc # "done" /\ reqs'[i].pc = "done"

RegisterOk(i) == IsRegister(i) /\ reqs[i].resp.status = Created
LoginOk(i) == IsLogin(i) /\ reqs[i].resp.status = Ok
SessionsOk(i) ==
    IsSessions(i) /\ reqs[i].resp.status = Ok
                  /\ reqs[i].resp # SessionsNotFound

\* The stored account whose name and password these are.
Matching(name, password) ==
    {u \in users : u.name = name /\ IsString(password)
                                 /\ CompareSync(password, u.password)}

\* C1: whatever the interleaving of concurrent registrations, the collection
\* holds at most one account per name and at most one registration of a name
\* is answered 201.
C1_UniqueName ==
    /\ \A u, v \in users : u.name = v.name => u = v
    /\ \A i, j \in Slots :
          (RegisterOk(i) /\ RegisterOk(j) /\ reqs[i].name = reqs[j].name)
             => i = j

\* Two registrations of one name overlapped: the later arrival was saved
\* first (201), the earlier one then hit the unique index (400).
C1_Witness ==
    \E i, j \in Slots :
       /\ i < j
       /\ IsRegister(i) /\ IsRegister(j) /\ reqs[i].name = reqs[j].name
       /\ RegisterOk(j)
       /\ reqs[i].resp = RegisterFailed("E11000")

C3_TokenStable ==
    /\ \A i \in Slots :
          (LoginOk(i) \/ SessionsOk(i)) =>
             LET tok == IF IsLogin(i)
                        THEN reqs[i].resp.body.response.accessToken
                        ELSE reqs[i].resp.body.accessToken
             IN  /\ \E j \in Slots : RegisterOk(j) /\ reqs[j].name = reqs[i].name
                 /\ \A j \in Slots :
                       (RegisterOk(j) /\ reqs[j].name = reqs[i].name) =>
                          reqs[j].resp.body.response.accessToken = tok
    /\ \A u \in users :
          \E j \in Slots :
             /\ RegisterOk(j)
             /\ reqs[j].resp.body.response =
                   [name |-> u.name, id |-> u.id, accessToken |-> u.accessToken]

C3_Witness ==
    \E i, j \in Slots :
       /\ RegisterOk(j)
       /\ LoginOk(i)
       /\ reqs[i].name = reqs[j].name
       /\ reqs[i].resp.body.response.accessToken = RandomBytes(j)

\* C4: a login whose password is not the correct password of an account of
\* that name is answered 400 "Credentials do not match", whether or not the
\* name exists (the store lookup having succeeded).
C4_LoginHidesName ==
    \A i \in Slots :
       (IsLogin(i) /\ reqs[i].pc = "done" /\ ~reqs[i].dbFailed
          /\ Matching(reqs[i].name, reqs[i].password) = {})
       => /\ reqs[i].resp.status = BadRequest
          /\ reqs[i].resp.body.response = "Credentials do not match"

TokenStored(token) == \E u \in users : u.accessToken = token

\* C5, as claimed: /secrets answers 200 with the secret if and only if the
\* Authorization value is the accessToken of a stored account, and 401 with
\* loggedOut otherwise.
C5_SecretsIffToken ==
    [][\A i \in Slots :
         (EndsNow(i) /\ reqs'[i].op = "secrets") =>
            IF TokenStored(reqs'[i].auth)
            THEN reqs'[i].resp = SecretsGranted
            ELSE reqs'[i].resp = PleaseLogIn
      ]_vars

\* C5, amended: /secrets answers 200 with the secret if and only if the store
\* lookup succeeds and the Authorization value is the accessToken of a stored
\* account; for any other value it never returns the secret and answers 401
\* with loggedOut, or 500 when the lookup itself fails.
C5_SecretsIffTokenAndLookup ==
    [][\A i \in Slots :
         (EndsNow(i) /\ reqs'[i].op = "secrets") =>
            IF reqs'[i].dbFailed
            THEN reqs'[i].resp.status = ServerError
            ELSE IF TokenStored(reqs'[i].auth)
            THEN reqs'[i].resp = SecretsGranted
            ELSE reqs'[i].resp = PleaseLogIn
      ]_vars

\* An issued token opened /secrets.
C5_Witness ==
    \E i, j \in Slots :
       /\ RegisterOk(j)
       /\ IsSecrets(i)
       /\ reqs[i].auth = reqs[j].resp.body.response.accessToken
       /\ reqs[i].resp = SecretsGranted

\* C6: a login (the store lookup having succeeded) is answered 200 with
\* {name, id, accessToken} of the stored record if and only if an account of
\* that name exists and the password is the one it was registered with, and
\* 400 "Credentials do not match" otherwise.
C6_LoginIffCredentials ==
    [][\A i \in Slots :
         (EndsNow(i) /\ reqs'[i].op = "login" /\ ~reqs'[i].dbFailed) =>
            LET good == Matching(reqs'[i].name, reqs'[i].password)
            IN  IF good # {}
                THEN \E u \in good : reqs'[i].resp = LoginSucceeded(u)
                ELSE /\ reqs'[i].resp.status = BadRequest
                     /\ reqs'[i].resp.body.response = "Credentials do not match"
      ]_vars

\* C7: the answer to a request whose store operation failed has a 5xx status.
C7_StoreFailureIs5xx ==
    \A i \in Slots :
       (Answered(i) /\ reqs[i].dbFailed) =>
          (reqs[i].resp.status >= 500 /\ reqs[i].resp.status < 600)

\* C8: a request whose handler has ended has been answered.
C8_EveryRequestAnswered ==
    \A i \in Slots : reqs[i].pc = "done" => Answered(i)

\* C9: only a registration answered 201 changes the collection, it only adds
\* to it, and /login, /sessions and /secrets leave it as it was.
C9_OnlyRegisterWrites ==
    [][/\ users \subseteq users'
       /\ \A i \in Slots :
             (reqs'[i] # reqs[i] /\ reqs'[i].op # "register") => users' = users
       /\ users' # users =>
             \E i \in Slots :
                /\ AnsweredNow(i)
                /\ reqs'[i].op = "register"
                /\ reqs'[i].resp.status = Created
      ]_vars

\* A login has succeeded and the account it read is as it was registered.
C9_Witness ==
    \E i, j \in Slots :
       /\ RegisterOk(j)
       /\ i > j
       /\ LoginOk(i)
       /\ users = {NewUser(j, reqs[j].name,
                           HashSync(reqs[j].password, reqs[j].salt))}

\* C10: once the client's store holds the accessToken of an accepted login
\* the client is shown Main at /secrets, and without one it never is.
C10_AcceptedLoginShowsMain ==
    (store.accessToken # Undefined) <=> (View = "Main")

====
